---- MODULE Spec2Model ----
(***************************************************************************)
(* Model of DatabaseSessionService                                         *)
(* (telegram-agent/adk-agent/database_session_service.py): the three       *)
(* tables it provisions and one action per public operation.  Each action  *)
(* is one call of the operation, run as the transaction the code runs.     *)
(*                                                                         *)
(* ConcSpec runs update_session calls of two callers as their separate     *)
(* store round-trips.  ResolverSpec models the player resolver of          *)
(* telegram-agent/adk-agent/tools.py over a match-history directory.       *)
(***************************************************************************)
EXTENDS Integers, Sequences, FiniteSets, TLC

VARIABLES agent_sessions, session_events, user_context, next_event_id, clock, last,
          callers, predictions, open_connections

vars == <<agent_sessions, session_events, user_context, next_event_id, clock, last,
          callers, predictions, open_connections>>

tables == <<agent_sessions, session_events, user_context, next_event_id, clock>>

\* what a completed call of the session store leaves as it found it: the calls
\* other callers have in flight, the match-history directory, and the number
\* of open connections (the connection opened at the top of each method is
\* closed in its finally clause)
outside == <<callers, predictions, open_connections>>

(* ---------------------------- bounds ----------------------------------- *)

\* number of committed timestamped write transactions explored
MaxClock == 2

\* longest events list passed to one update_session call
MaxEvents == 2

(* ---------------------------- inputs ----------------------------------- *)

\* the session keys (app_name, user_id, session_id) callers use: two sessions
\* of one user, the same session_id under another app, and under another user
Triples ==
    {<<"app1", "u1", "s1">>, <<"app1", "u1", "s2">>,
     <<"app2", "u1", "s1">>, <<"app1", "u2", "s1">>}

\* the (app_name, user_id) pairs of those keys
Pairs == {<<t[1], t[2]>> : t \in Triples}

\* the key and the pair the calls that meet a storage failure are made with
ProbeTriple == <<"app1", "u1", "s1">>

ProbePair == <<"app1", "u1">>

\* Optional[...] argument: None is the empty set, a supplied value v is {v}
None == {}

Some(v) == {v}

Val(x) == CHOOSE v \in x : TRUE

EmptyMap == [k \in {} |-> 0]

\* (state, metadata) argument pairs of create_session and update_session:
\* both omitted, and two pairs whose maps overlap in one key and differ in another
SessionArgs ==
    {<<None, None>>,
     <<Some([a |-> 1]), Some([m |-> 1])>>,
     <<Some([a |-> 2, b |-> 2]), Some([m |-> 2, n |-> 2])>>}

\* (preferences, interaction_stats) argument pairs of update_user_context
ContextArgs ==
    {<<None, None>>, <<Some([lang |-> 1]), Some([queries |-> 1])>>}

\* an event with a declared type and one without
TypedEvent == [type |-> "message", text |-> "hi"]

UntypedEvent == [text |-> "hi"]

EventList(m) == [i \in 1..m |-> IF i % 2 = 1 THEN TypedEvent ELSE UntypedEvent]

EventInputs == {None, Some(EventList(MaxEvents))}

\* (limit, offset) argument pairs of get_session_events: the first and the
\* second page of one row and of two rows
PageArgs == {<<1, 0>>, <<1, 1>>, <<2, 0>>, <<2, 2>>}

\* where the storage layer fails during a call: nowhere, in
\* psycopg2.connect, or in a statement / commit after the connection opened
Failures == {"none", "connect", "query"}

\* the two callers whose calls run concurrently
Callers == {"c1", "c2"}

\* a caller with no call in flight
Idle == [pc |-> "idle"]

(* ---------------------------- helpers ---------------------------------- *)

\* {**a, **b}
Merge(a, b) ==
    [k \in (DOMAIN a) \cup (DOMAIN b) |-> IF k \in DOMAIN b THEN b[k] ELSE a[k]]

\* `x or {}` for an Optional[Dict]
OrEmptyMap(x) == IF x = None \/ x = Some(EmptyMap) THEN EmptyMap ELSE Val(x)

\* `events or []` for an Optional[List]
OrEmptyList(x) == IF x = None THEN <<>> ELSE Val(x)

\* event_data.get('type', 'unknown')
EventType(e) == IF "type" \in DOMAIN e THEN e.type ELSE "unknown"

\* a row of the sessions table matches
\* WHERE session_id = %s AND user_id = %s AND app_name = %s
HasSession(sessions, app_name, user_id, session_id) ==
    /\ session_id \in DOMAIN sessions
    /\ sessions[session_id].user_id = user_id
    /\ sessions[session_id].app_name = app_name

SessionExists(app_name, user_id, session_id) ==
    HasSession(agent_sessions, app_name, user_id, session_id)

\* a row of the contexts table matches WHERE user_id = %s AND app_name = %s
HasContext(contexts, app_name, user_id) ==
    /\ user_id \in DOMAIN contexts
    /\ contexts[user_id].app_name = app_name

ContextExists(app_name, user_id) == HasContext(user_context, app_name, user_id)

\* the rows of an events table matching
\* WHERE session_id = %s AND user_id = %s AND app_name = %s, in insertion order
EventsIn(evs, app_name, user_id, session_id) ==
    SelectSeq(evs,
              LAMBDA e : /\ e.session_id = session_id
                         /\ e.user_id = user_id
                         /\ e.app_name = app_name)

EventsOf(app_name, user_id, session_id) ==
    EventsIn(session_events, app_name, user_id, session_id)

(* ---------------------------- initial state ---------------------------- *)

\* _initialize_database: the three tables exist and are empty
Init ==
    /\ agent_sessions = [s \in {} |-> 0]
    /\ session_events = <<>>
    /\ user_context = [u \in {} |-> 0]
    /\ next_event_id = 1
    /\ clock = 0
    /\ last = [op |-> "init", raised |-> FALSE]
    /\ callers = [c \in Callers |-> Idle]
    /\ predictions = {}
    /\ open_connections = 0

(* ---------------------------- statements ------------------------------- *)

\* a fresh agent_sessions row: the INSERT's values plus the column defaults
NewSessionRow(app_name, user_id, initial_state, metadata, ts) ==
    [user_id |-> user_id,
     app_name |-> app_name,
     events |-> <<>>,
     state |-> initial_state,
     metadata |-> metadata,
     created_at |-> ts,
     updated_at |-> ts,
     last_activity |-> ts,
     conversation_count |-> 0,
     total_events |-> 0]

\* UpsertSession with DO UPDATE SET state = EXCLUDED.state, metadata = EXCLUDED.metadata
UpsertSessionReplace(app_name, user_id, session_id, initial_state, metadata, ts) ==
    IF session_id \in DOMAIN agent_sessions
    THEN [agent_sessions EXCEPT ![session_id].state = initial_state,
                                ![session_id].metadata = metadata,
                                ![session_id].last_activity = ts,
                                ![session_id].updated_at = ts]
    ELSE [s \in (DOMAIN agent_sessions) \cup {session_id} |->
            IF s = session_id
            THEN NewSessionRow(app_name, user_id, initial_state, metadata, ts)
            ELSE agent_sessions[s]]

\* INSERT INTO agent_sessions ... ON CONFLICT (session_id) DO UPDATE SET
\*   state = COALESCE(agent_sessions.state, '{}'), metadata = COALESCE(...),
\*   last_activity = CURRENT_TIMESTAMP, updated_at = CURRENT_TIMESTAMP
\* The conflict target is the primary key, session_id alone.  The state and
\* metadata columns are never NULL (every writer stores a JSON document), so
\* COALESCE returns the stored value.
UpsertSession(app_name, user_id, session_id, initial_state, metadata, ts) ==
    IF session_id \in DOMAIN agent_sessions
    THEN [agent_sessions EXCEPT ![session_id].last_activity = ts,
                                ![session_id].updated_at = ts]
    ELSE [s \in (DOMAIN agent_sessions) \cup {session_id} |->
            IF s = session_id
            THEN NewSessionRow(app_name, user_id, initial_state, metadata, ts)
            ELSE agent_sessions[s]]

\* INSERT INTO user_context ... ON CONFLICT (user_id, app_name) DO NOTHING
\* raises a unique violation when the primary key (user_id alone) collides
\* with a row of another app_name: that conflict is not on the arbiter index.
ContextInsertRaises(app_name, user_id) ==
    /\ user_id \in DOMAIN user_context
    /\ user_context[user_id].app_name # app_name

\* a plain INSERT INTO user_context raises on any primary-key collision
ContextPlainInsertRaises(user_id) == user_id \in DOMAIN user_context

NewContextRow(app_name, preferences, interaction_stats, ts) ==
    [app_name |-> app_name,
     user_preferences |-> preferences,
     interaction_stats |-> interaction_stats,
     created_at |-> ts,
     updated_at |-> ts]

InsertContext(app_name, user_id, preferences, interaction_stats, ts) ==
    [u \in (DOMAIN user_context) \cup {user_id} |->
        IF u = user_id
        THEN NewContextRow(app_name, preferences, interaction_stats, ts)
        ELSE user_context[u]]

\* the ON CONFLICT ... DO NOTHING insert of create_session, when it does not raise
InsertContextIfAbsent(app_name, user_id, ts) ==
    IF user_id \in DOMAIN user_context
    THEN user_context
    ELSE InsertContext(app_name, user_id, EmptyMap, EmptyMap, ts)

\* an exception anywhere in create_session (connect is outside the try and
\* raises directly; inside the try the handler rolls back and re-raises)
CreateRaises(app_name, user_id, fail) ==
    fail # "none" \/ ContextInsertRaises(app_name, user_id)

\* the rows update_session appends to session_events, one per supplied event
NewEventRows(app_name, user_id, session_id, evs, ts) ==
    [i \in 1..Len(evs) |->
        [event_id |-> next_event_id + i - 1,
         session_id |-> session_id,
         user_id |-> user_id,
         app_name |-> app_name,
         event_type |-> EventType(evs[i]),
         event_data |-> evs[i],
         timestamp |-> ts]]

\* NewState with the supplied state replacing the stored one
NewStateReplace(current_state, state) ==
    IF state # None THEN Val(state) ELSE current_state

\* the merged state update_session writes
NewState(current_state, state) ==
    IF state # None THEN Merge(current_state, Val(state)) ELSE current_state

\* the merged metadata update_session writes
NewMetadata(current_metadata, metadata) ==
    IF metadata # None THEN Merge(current_metadata, Val(metadata)) ELSE current_metadata

\* new_events = (current_events or []) + (events or [])
NewEvents(current_events, events) == current_events \o OrEmptyList(events)

\* new_conv_count = conv_count + (1 if add_conversation else 0)
NewConvCount(conv_count, add_conversation) ==
    conv_count + (IF add_conversation THEN 1 ELSE 0)

\* NewTotalEvents counting calls instead of events
NewTotalEventsPerCall(total_events, events) ==
    total_events + (IF OrEmptyList(events) # <<>> THEN 1 ELSE 0)

\* new_total_events = total_events + (len(events) if events else 0)
NewTotalEvents(total_events, events) == total_events + Len(OrEmptyList(events))

\* the row the UPDATE agent_sessions statement of update_session leaves
UpdatedSessionRow(current, state, events, metadata, add_conversation, ts) ==
    [current EXCEPT
        !.state = NewState(current.state, state),
        !.events = NewEvents(current.events, events),
        !.metadata = NewMetadata(current.metadata, metadata),
        !.last_activity = ts,
        !.conversation_count = NewConvCount(current.conversation_count, add_conversation),
        !.total_events = NewTotalEvents(current.total_events, events),
        !.updated_at = ts]

\* DeletedFlag with the comparison off by one
DeletedFlagAlways(rowcount) == rowcount >= 0

\* deleted = cur.rowcount > 0, after the DELETE FROM agent_sessions
DeletedFlag(rowcount) == rowcount > 0

\* FOREIGN KEY (session_id) REFERENCES agent_sessions ON DELETE CASCADE
CascadeDelete(evs, deleted_ids) ==
    SelectSeq(evs, LAMBDA e : e.session_id \notin deleted_ids)

\* every way to sort the records of S by their ts field, descending; rows
\* with equal ts come out in an order the database does not fix
RECURSIVE OrderingsDesc(_)
OrderingsDesc(S) ==
    IF S = {} THEN {<<>>}
    ELSE UNION {{<<e>> \o t : t \in OrderingsDesc(S \ {e})} :
                e \in {x \in S : \A y \in S : x.ts >= y.ts}}

\* LIMIT l OFFSET o applied to a result sequence
Page(rows, l, o) ==
    IF o >= Len(rows) THEN <<>>
    ELSE SubSeq(rows, o + 1, IF o + l <= Len(rows) THEN o + l ELSE Len(rows))

SeqRange(q) == {q[i] : i \in 1..Len(q)}

(* ---------------------------- operations ------------------------------- *)

\* create_session: one transaction, session upsert then context insert
create_session(app_name, user_id, session_id, initial_state, metadata, fail) ==
    /\ clock < MaxClock
    /\ LET raised == CreateRaises(app_name, user_id, fail)
           ts == clock + 1
       IN /\ IF raised
             THEN UNCHANGED tables
             ELSE /\ agent_sessions' = UpsertSession(app_name, user_id, session_id,
                                                     OrEmptyMap(initial_state),
                                                     OrEmptyMap(metadata), ts)
                  /\ user_context' = InsertContextIfAbsent(app_name, user_id, ts)
                  /\ clock' = ts
                  /\ UNCHANGED <<session_events, next_event_id>>
          /\ last' = [op |-> "create_session",
                      app_name |-> app_name, user_id |-> user_id,
                      session_id |-> session_id,
                      state |-> initial_state, metadata |-> metadata,
                      existed |-> SessionExists(app_name, user_id, session_id),
                      fail |-> fail, raised |-> raised]

\* what get_session returns when the store serves it: for a row of the key
\* the dict with id, appName, userId, state and metadata (the other columns
\* it selects are left out of the dict), else None
SessionRecord(sessions, app_name, user_id, session_id) ==
    IF HasSession(sessions, app_name, user_id, session_id)
    THEN Some([id |-> session_id,
               appName |-> app_name,
               userId |-> user_id,
               state |-> sessions[session_id].state,
               metadata |-> sessions[session_id].metadata])
    ELSE None

\* get_session: connect is outside the try, a failing query is swallowed
get_session(app_name, user_id, session_id, fail) ==
    /\ UNCHANGED tables
    /\ last' = [op |-> "get_session",
                app_name |-> app_name, user_id |-> user_id,
                session_id |-> session_id,
                fail |-> fail, raised |-> (fail = "connect"),
                ret |-> IF fail = "none"
                        THEN SessionRecord(agent_sessions, app_name, user_id, session_id)
                        ELSE None]

\* list_sessions: session ids of the pair, ORDER BY last_activity DESC
list_sessions(app_name, user_id, fail) ==
    /\ UNCHANGED tables
    /\ LET rows == {[ts |-> agent_sessions[s].last_activity, session_id |-> s] :
                    s \in {x \in DOMAIN agent_sessions :
                             /\ agent_sessions[x].user_id = user_id
                             /\ agent_sessions[x].app_name = app_name}}
       IN \E ordered \in OrderingsDesc(rows) :
            last' = [op |-> "list_sessions",
                     app_name |-> app_name, user_id |-> user_id,
                     fail |-> fail, raised |-> (fail = "connect"),
                     ret |-> IF fail = "none"
                             THEN [i \in 1..Len(ordered) |-> ordered[i].session_id]
                             ELSE <<>>]

\* update_session: read the row, then either delegate to create_session and
\* return, or rewrite the row and insert one session_events row per event
update_session(app_name, user_id, session_id, state, events, metadata, add_conversation, fail) ==
    /\ clock < MaxClock
    /\ LET existed == SessionExists(app_name, user_id, session_id)
           raised == IF existed THEN fail # "none"
                     ELSE CreateRaises(app_name, user_id, fail)
           ts == clock + 1
           evs == OrEmptyList(events)
       IN /\ IF raised
             THEN UNCHANGED tables
             ELSE IF ~existed
             THEN /\ agent_sessions' = UpsertSession(app_name, user_id, session_id,
                                                     OrEmptyMap(state),
                                                     OrEmptyMap(metadata), ts)
                  /\ user_context' = InsertContextIfAbsent(app_name, user_id, ts)
                  /\ clock' = ts
                  /\ UNCHANGED <<session_events, next_event_id>>
             ELSE /\ agent_sessions' =
                        [agent_sessions EXCEPT ![session_id] =
                            UpdatedSessionRow(@, state, events, metadata,
                                              add_conversation, ts)]
                  /\ session_events' = session_events \o
                        NewEventRows(app_name, user_id, session_id, evs, ts)
                  /\ next_event_id' = next_event_id + Len(evs)
                  /\ clock' = ts
                  /\ UNCHANGED user_context
          /\ last' = [op |-> "update_session",
                      app_name |-> app_name, user_id |-> user_id,
                      session_id |-> session_id,
                      state |-> state, events |-> events, metadata |-> metadata,
                      add_conversation |-> add_conversation,
                      existed |-> existed,
                      fail |-> fail, raised |-> raised]

\* delete_session: events of the triple, then the session row; the except
\* branch rolls back and returns False
delete_session(app_name, user_id, session_id, fail) ==
    LET existed == SessionExists(app_name, user_id, session_id)
        deleted_ids == IF existed THEN {session_id} ELSE {}
    IN /\ IF fail # "none"
          THEN UNCHANGED tables
          ELSE /\ session_events' =
                    CascadeDelete(
                        SelectSeq(session_events,
                                  LAMBDA e : ~(/\ e.session_id = session_id
                                               /\ e.user_id = user_id
                                               /\ e.app_name = app_name)),
                        deleted_ids)
               /\ agent_sessions' = [s \in (DOMAIN agent_sessions) \ deleted_ids |->
                                        agent_sessions[s]]
               /\ UNCHANGED <<user_context, next_event_id, clock>>
       /\ last' = [op |-> "delete_session",
                   app_name |-> app_name, user_id |-> user_id,
                   session_id |-> session_id,
                   existed |-> existed,
                   fail |-> fail, raised |-> (fail = "connect"),
                   ret |-> (fail = "none" /\ DeletedFlag(Cardinality(deleted_ids)))]

\* delete_user_sessions also deleting the user_context row of the pair
delete_user_sessions_and_context(app_name, user_id, fail) ==
    LET deleted_ids == {s \in DOMAIN agent_sessions :
                            /\ agent_sessions[s].user_id = user_id
                            /\ agent_sessions[s].app_name = app_name}
    IN /\ IF fail # "none"
          THEN UNCHANGED tables
          ELSE /\ session_events' =
                    CascadeDelete(
                        SelectSeq(session_events,
                                  LAMBDA e : ~(/\ e.user_id = user_id
                                               /\ e.app_name = app_name)),
                        deleted_ids)
               /\ agent_sessions' = [s \in (DOMAIN agent_sessions) \ deleted_ids |->
                                        agent_sessions[s]]
               /\ user_context' = [u \in {x \in DOMAIN user_context :
                                              ~ContextExists(app_name, x)} |->
                                        user_context[u]]
               /\ UNCHANGED <<next_event_id, clock>>
       /\ last' = [op |-> "delete_user_sessions",
                   app_name |-> app_name, user_id |-> user_id,
                   existed |-> (deleted_ids # {}),
                   fail |-> fail, raised |-> (fail = "connect"),
                   ret |-> IF fail = "none" THEN Cardinality(deleted_ids) ELSE 0]

\* delete_user_sessions: events of the pair, then its session rows; the
\* except branch rolls back and returns 0
delete_user_sessions(app_name, user_id, fail) ==
    LET deleted_ids == {s \in DOMAIN agent_sessions :
                            /\ agent_sessions[s].user_id = user_id
                            /\ agent_sessions[s].app_name = app_name}
    IN /\ IF fail # "none"
          THEN UNCHANGED tables
          ELSE /\ session_events' =
                    CascadeDelete(
                        SelectSeq(session_events,
                                  LAMBDA e : ~(/\ e.user_id = user_id
                                               /\ e.app_name = app_name)),
                        deleted_ids)
               /\ agent_sessions' = [s \in (DOMAIN agent_sessions) \ deleted_ids |->
                                        agent_sessions[s]]
               /\ UNCHANGED <<user_context, next_event_id, clock>>
       /\ last' = [op |-> "delete_user_sessions",
                   app_name |-> app_name, user_id |-> user_id,
                   existed |-> (deleted_ids # {}),
                   fail |-> fail, raised |-> (fail = "connect"),
                   ret |-> IF fail = "none" THEN Cardinality(deleted_ids) ELSE 0]

\* get_user_context: connect is outside the try, a failing query is swallowed
get_user_context(app_name, user_id, fail) ==
    /\ UNCHANGED tables
    /\ last' = [op |-> "get_user_context",
                app_name |-> app_name, user_id |-> user_id,
                fail |-> fail, raised |-> (fail = "connect"),
                ret |-> IF fail = "none" /\ ContextExists(app_name, user_id)
                        THEN Some([user_preferences |-> user_context[user_id].user_preferences,
                                   interaction_stats |-> user_context[user_id].interaction_stats,
                                   created_at |-> user_context[user_id].created_at,
                                   updated_at |-> user_context[user_id].updated_at])
                        ELSE None]

\* update_user_context: merge into the row of the pair, or plain INSERT
update_user_context(app_name, user_id, preferences, interaction_stats, fail) ==
    /\ clock < MaxClock
    /\ LET existed == ContextExists(app_name, user_id)
           raised == \/ fail # "none"
                     \/ (~existed /\ ContextPlainInsertRaises(user_id))
           ts == clock + 1
       IN /\ IF raised
             THEN UNCHANGED tables
             ELSE /\ user_context' =
                        IF existed
                        THEN [user_context EXCEPT
                                ![user_id].user_preferences =
                                    Merge(@, OrEmptyMap(preferences)),
                                ![user_id].interaction_stats =
                                    Merge(@, OrEmptyMap(interaction_stats)),
                                ![user_id].updated_at = ts]
                        ELSE InsertContext(app_name, user_id,
                                           OrEmptyMap(preferences),
                                           OrEmptyMap(interaction_stats), ts)
                  /\ clock' = ts
                  /\ UNCHANGED <<agent_sessions, session_events, next_event_id>>
          /\ last' = [op |-> "update_user_context",
                      app_name |-> app_name, user_id |-> user_id,
                      preferences |-> preferences,
                      interaction_stats |-> interaction_stats,
                      existed |-> existed,
                      fail |-> fail, raised |-> raised]

\* get_session_events: rows of the triple, ORDER BY timestamp DESC LIMIT OFFSET
get_session_events(app_name, user_id, session_id, limit, offset, fail) ==
    /\ UNCHANGED tables
    /\ LET rows == {[ts |-> e.timestamp, row |-> e] :
                    e \in SeqRange(EventsOf(app_name, user_id, session_id))}
       IN \E ordered \in OrderingsDesc(rows) :
            last' = [op |-> "get_session_events",
                     app_name |-> app_name, user_id |-> user_id,
                     session_id |-> session_id,
                     limit |-> limit, offset |-> offset,
                     fail |-> fail, raised |-> (fail = "connect"),
                     ret |-> IF fail = "none"
                             THEN Page([i \in 1..Len(ordered) |->
                                          [type |-> ordered[i].row.event_type,
                                           data |-> ordered[i].row.event_data,
                                           timestamp |-> ordered[i].row.timestamp]],
                                       limit, offset)
                             ELSE <<>>]

\* the connections a call of a session store method opens with
\* psycopg2.connect: none when the connect at the top of the method raises,
\* else that one, and in update_session a second one, opened by the
\* create_session it awaits when its SELECT finds no row (a failing query
\* is taken to be the first statement the method executes)
ConnectionsAcquired(call) ==
    IF call.fail = "connect" THEN 0
    ELSE IF call.op = "update_session" /\ ~call.existed /\ call.fail = "none" THEN 2
    ELSE 1

\* the most connections the call holds open at one time: update_session
\* closes its own in the finally clause, after the awaited create_session
\* has opened and closed the second
ConnectionsHeld(call) == ConnectionsAcquired(call)

(* ---------------------------- specification ---------------------------- *)

\* A call that meets a storage failure is undone whatever its arguments
\* were, so the failing calls are explored with one key and with the optional
\* arguments omitted.
CreateSession ==
    \E t \in Triples, x \in SessionArgs, f \in Failures :
        /\ f # "none" => (t = ProbeTriple /\ x = <<None, None>>)
        /\ create_session(t[1], t[2], t[3], x[1], x[2], f)
        /\ UNCHANGED outside

GetSession ==
    \E t \in Triples, f \in Failures :
        /\ f # "none" => t = ProbeTriple
        /\ get_session(t[1], t[2], t[3], f)
        /\ UNCHANGED outside

ListSessions ==
    \E p \in Pairs, f \in Failures :
        /\ f # "none" => p = ProbePair
        /\ list_sessions(p[1], p[2], f)
        /\ UNCHANGED outside

UpdateSession ==
    \E t \in Triples, x \in SessionArgs, ev \in EventInputs, c \in BOOLEAN,
       f \in Failures :
        /\ f # "none" => (t = ProbeTriple /\ x = <<None, None>> /\ ev = None /\ ~c)
        /\ update_session(t[1], t[2], t[3], x[1], ev, x[2], c, f)
        /\ UNCHANGED outside

DeleteSession ==
    \E t \in Triples, f \in Failures :
        /\ f # "none" => t = ProbeTriple
        /\ delete_session(t[1], t[2], t[3], f)
        /\ UNCHANGED outside

DeleteUserSessions ==
    \E p \in Pairs, f \in Failures :
        /\ f # "none" => p = ProbePair
        /\ delete_user_sessions(p[1], p[2], f)
        /\ UNCHANGED outside

GetUserContext ==
    \E p \in Pairs, f \in Failures :
        /\ f # "none" => p = ProbePair
        /\ get_user_context(p[1], p[2], f)
        /\ UNCHANGED outside

UpdateUserContext ==
    \E p \in Pairs, x \in ContextArgs, f \in Failures :
        /\ f # "none" => (p = ProbePair /\ x = <<None, None>>)
        /\ update_user_context(p[1], p[2], x[1], x[2], f)
        /\ UNCHANGED outside

GetSessionEvents ==
    \E t \in Triples, x \in PageArgs, f \in Failures :
        /\ f # "none" => (t = ProbeTriple /\ x = <<1, 0>>)
        /\ get_session_events(t[1], t[2], t[3], x[1], x[2], f)
        /\ UNCHANGED outside

Next ==
    \/ CreateSession
    \/ GetSession
    \/ ListSessions
    \/ UpdateSession
    \/ DeleteSession
    \/ DeleteUserSessions
    \/ GetUserContext
    \/ UpdateUserContext
    \/ GetSessionEvents

Spec == Init /\ [][Next]_vars

(* ---------------------------- concurrent callers ----------------------- *)

\* The calls of two callers on one key, one call each, each over its own
\* connection and in its own READ COMMITTED transaction (the psycopg2
\* default).  update_session takes three kinds of store round-trips: the
\* SELECT, the UPDATE with the INSERTs that follow it, and the COMMIT.  The
\* SELECT takes no row lock (it has no FOR UPDATE); the UPDATE waits while
\* another transaction holds an uncommitted UPDATE of the row; what a
\* transaction wrote is seen by the others once it has committed.

\* the event the session holds before the two callers start
SeedEvent == [type |-> "message", text |-> "seed"]

\* the row of the session before the two callers start: created at time 0
\* and updated once with SeedEvent in a conversation turn
SeedRow ==
    [NewSessionRow(ProbeTriple[1], ProbeTriple[2], EmptyMap, EmptyMap, 0) EXCEPT
        !.events = <<SeedEvent>>,
        !.conversation_count = 1,
        !.total_events = 1]

\* the events list of m events caller c supplies
EventsFrom(c, m) == [i \in 1..m |-> [type |-> "message", text |-> c]]

\* the events arguments caller c makes its call with
CallerEventInputs(c) == {None, Some(EventsFrom(c, 1)), Some(EventsFrom(c, MaxEvents))}

\* the stores the two callers start on: the one holding the session of
\* ProbeTriple (SeedRow, its event and the context row of its user), the
\* empty one, and one without sessions in which the user of ProbeTriple has
\* a context row under another application (what create_session followed by
\* delete_session under that application leaves)
SeededStore ==
    [sessions |-> [s \in {ProbeTriple[3]} |-> SeedRow],
     events |-> <<[event_id |-> 1,
                   session_id |-> ProbeTriple[3],
                   user_id |-> ProbeTriple[2],
                   app_name |-> ProbeTriple[1],
                   event_type |-> EventType(SeedEvent),
                   event_data |-> SeedEvent,
                   timestamp |-> 0]>>,
     contexts |-> [u \in {ProbeTriple[2]} |->
                      NewContextRow(ProbeTriple[1], EmptyMap, EmptyMap, 0)],
     next_id |-> 2]

EmptyStore ==
    [sessions |-> [s \in {} |-> 0],
     events |-> <<>>,
     contexts |-> [u \in {} |-> 0],
     next_id |-> 1]

OtherAppContextStore ==
    [sessions |-> [s \in {} |-> 0],
     events |-> <<>>,
     contexts |-> [u \in {ProbeTriple[2]} |->
                      NewContextRow("app2", EmptyMap, EmptyMap, 0)],
     next_id |-> 1]

ConcStores == {SeededStore, EmptyStore, OtherAppContextStore}

ConcInit ==
    /\ \E st \in ConcStores :
          /\ agent_sessions = st.sessions
          /\ session_events = st.events
          /\ user_context = st.contexts
          /\ next_event_id = st.next_id
    /\ clock = 0
    /\ last = [op |-> "init", raised |-> FALSE]
    /\ callers = [c \in Callers |-> Idle]
    /\ predictions = {}
    /\ open_connections = 0

\* a call in flight right after psycopg2.connect: its arguments, the time
\* its transaction started at, and what the transaction has read and written
\* so far (nothing): the row the SELECT returned, the agent_sessions row and
\* the user_context row it wrote, the session_events rows it inserted, the
\* session rows it deleted, the session ids whose row or key it locks, and
\* whether its UPDATE has rewritten the row of its key
Started(op, app_name, user_id, session_id, state, events, metadata, add_conversation, ts) ==
    [pc |-> "started", op |-> op,
     app_name |-> app_name, user_id |-> user_id, session_id |-> session_id,
     state |-> state, events |-> events, metadata |-> metadata,
     add_conversation |-> add_conversation,
     ts |-> ts,
     current |-> None,
     row |-> None,
     context |-> None,
     rows |-> <<>>,
     deleted |-> {},
     locks |-> {},
     rewrote |-> FALSE,
     error |-> "none"]

\* a call that has returned or raised: conn.close() ended its transaction,
\* what it had read and written is kept by the store or gone
Ended(r, pc, error) ==
    [r EXCEPT !.pc = pc, !.error = error,
              !.current = None, !.row = None, !.context = None,
              !.rows = <<>>, !.deleted = {}, !.locks = {}]

\* a statement of caller c on the rows or keys ids waits: another
\* transaction holds an uncommitted write of one of them
Blocked(c, ids) ==
    \E d \in Callers \ {c} :
        callers[d].pc = "written" /\ callers[d].locks \cap ids # {}

\* the agent_sessions table once the transaction of call r has committed
CommittedSessions(r) ==
    LET kept == (DOMAIN agent_sessions) \ r.deleted
    IN [s \in kept \cup (IF r.row = None THEN {} ELSE {r.session_id}) |->
           IF r.row # None /\ s = r.session_id THEN Val(r.row)
           ELSE agent_sessions[s]]

\* the user_context table once the transaction of call r has committed
CommittedContexts(r) ==
    [u \in (DOMAIN user_context) \cup (IF r.context = None THEN {} ELSE {r.user_id}) |->
        IF r.context # None /\ u = r.user_id THEN Val(r.context)
        ELSE user_context[u]]

\* update_session up to `current = cur.fetchone()`: the caller connects, its
\* transaction starts (CURRENT_TIMESTAMP is fixed from here on) and it reads
\* the committed row of the key.  The branch of a SELECT that finds no row
\* runs create_session and returns; it is create_session_write below.
update_session_select(c, app_name, user_id, session_id, state, events, metadata, add_conversation) ==
    /\ callers[c].pc = "idle"
    /\ SessionExists(app_name, user_id, session_id)
    /\ callers' = [callers EXCEPT ![c] =
                      [Started("update_session", app_name, user_id, session_id,
                               state, events, metadata, add_conversation,
                               clock + 1)
                          EXCEPT !.pc = "selected",
                                 !.current = Some(agent_sessions[session_id])]]
    /\ clock' = clock + 1
    /\ open_connections' = open_connections + 1
    /\ UNCHANGED <<agent_sessions, session_events, user_context, next_event_id,
                   last, predictions>>

\* update_session from the merge to the last INSERT: the row computed from
\* what the SELECT returned is written by the UPDATE, which takes the row
\* lock, and one session_events row per event is inserted; the serial ids are
\* drawn at once, the rows stay invisible to the others until the COMMIT.
\* When the row is gone by now the UPDATE matches nothing, and the first
\* INSERT breaks the foreign key of session_events: the except branch rolls
\* back and re-raises, the finally clause closes the connection.
update_session_write(c) ==
    /\ callers[c].pc = "selected"
    /\ ~Blocked(c, {callers[c].session_id})
    /\ LET r == callers[c]
           evs == OrEmptyList(r.events)
           matched == SessionExists(r.app_name, r.user_id, r.session_id)
           referenced == r.session_id \in DOMAIN agent_sessions
       IN IF evs # <<>> /\ ~referenced
          THEN /\ callers' = [callers EXCEPT ![c] = Ended(r, "raised", "foreign_key")]
               /\ next_event_id' = next_event_id + 1
               /\ open_connections' = open_connections - 1
          ELSE /\ callers' = [callers EXCEPT ![c] =
                       [r EXCEPT
                           !.pc = "written",
                           !.row = IF matched
                                   THEN Some(UpdatedSessionRow(Val(r.current), r.state,
                                                               r.events, r.metadata,
                                                               r.add_conversation, r.ts))
                                   ELSE None,
                           !.rows = NewEventRows(r.app_name, r.user_id, r.session_id,
                                                 evs, r.ts),
                           !.locks = {r.session_id},
                           !.rewrote = matched]]
               /\ next_event_id' = next_event_id + Len(evs)
               /\ UNCHANGED open_connections
    /\ UNCHANGED <<agent_sessions, session_events, user_context, clock, last,
                   predictions>>

\* conn.commit() and the conn.close() of the finally clause: the written row
\* and the inserted event rows become the committed ones
update_session_commit(c) ==
    /\ callers[c].pc = "written"
    /\ callers[c].op = "update_session"
    /\ LET r == callers[c]
       IN /\ agent_sessions' = CommittedSessions(r)
          /\ session_events' = session_events \o r.rows
          /\ callers' = [callers EXCEPT ![c] = Ended(r, "done", "none")]
    /\ open_connections' = open_connections - 1
    /\ UNCHANGED <<user_context, next_event_id, clock, last, predictions>>

\* update_session_raise with conn.commit() in the place of conn.rollback()
update_session_raise_committing(c) ==
    /\ callers[c].pc \in {"selected", "written"}
    /\ callers[c].op = "update_session"
    /\ LET r == callers[c]
       IN /\ agent_sessions' = CommittedSessions(r)
          /\ session_events' = session_events \o r.rows
          /\ callers' = [callers EXCEPT ![c] = Ended(r, "raised", "store")]
    /\ open_connections' = open_connections - 1
    /\ UNCHANGED <<user_context, next_event_id, clock, last, predictions>>

\* update_session when the store fails in a statement after the SELECT or in
\* the commit: `except Exception: conn.rollback(); raise`, then the
\* conn.close() of the finally clause.  What the transaction wrote (the
\* rewritten row, the event rows inserted so far) is discarded; the serial
\* ids it drew are not given back.
update_session_raise(c) ==
    /\ callers[c].pc \in {"selected", "written"}
    /\ callers[c].op = "update_session"
    /\ callers' = [callers EXCEPT ![c] = Ended(callers[c], "raised", "store")]
    /\ open_connections' = open_connections - 1
    /\ UNCHANGED <<agent_sessions, session_events, user_context, next_event_id,
                   clock, last, predictions>>

\* create_session up to the second INSERT.  The upsert waits while another
\* transaction holds an uncommitted insert, update or delete of the same
\* session_id, and is then evaluated on the committed rows: the conflict
\* branch touches the row, else the row is inserted.  The context insert
\* does nothing when the user has a row of the application and breaks the
\* primary key when the user has a row of another one (rollback, re-raise).
create_session_write(c, app_name, user_id, session_id, initial_state, metadata) ==
    /\ callers[c].pc = "idle"
    /\ ~Blocked(c, {session_id})
    /\ LET ts == clock + 1
           r == Started("create_session", app_name, user_id, session_id,
                        initial_state, None, metadata, FALSE, ts)
       IN /\ IF ContextInsertRaises(app_name, user_id)
             THEN /\ callers' = [callers EXCEPT ![c] = Ended(r, "raised", "unique")]
                  /\ UNCHANGED open_connections
             ELSE /\ callers' = [callers EXCEPT ![c] =
                          [r EXCEPT
                              !.pc = "written",
                              !.row = Some(UpsertSession(app_name, user_id, session_id,
                                                         OrEmptyMap(initial_state),
                                                         OrEmptyMap(metadata),
                                                         ts)[session_id]),
                              !.context =
                                  IF user_id \in DOMAIN user_context THEN None
                                  ELSE Some(NewContextRow(app_name, EmptyMap,
                                                          EmptyMap, ts)),
                              !.locks = {session_id}]]
                  /\ open_connections' = open_connections + 1
          /\ clock' = ts
    /\ UNCHANGED <<agent_sessions, session_events, user_context, next_event_id,
                   last, predictions>>

\* conn.commit() and conn.close() of create_session
create_session_commit(c) ==
    /\ callers[c].pc = "written"
    /\ callers[c].op = "create_session"
    /\ LET r == callers[c]
       IN /\ agent_sessions' = CommittedSessions(r)
          /\ user_context' = CommittedContexts(r)
          /\ callers' = [callers EXCEPT ![c] = Ended(r, "done", "none")]
    /\ open_connections' = open_connections - 1
    /\ UNCHANGED <<session_events, next_event_id, clock, last, predictions>>

\* delete_session up to the second DELETE, which waits while another
\* transaction holds an uncommitted write of the row or a reference to it
\* from an event row it inserted
delete_session_write(c, app_name, user_id, session_id) ==
    LET deleted_ids == IF SessionExists(app_name, user_id, session_id)
                       THEN {session_id} ELSE {}
    IN /\ callers[c].pc = "idle"
       /\ ~Blocked(c, deleted_ids)
       /\ callers' = [callers EXCEPT ![c] =
              [Started("delete_session", app_name, user_id, session_id,
                       None, None, None, FALSE, clock + 1)
                  EXCEPT !.pc = "written",
                         !.deleted = deleted_ids,
                         !.locks = deleted_ids]]
       /\ clock' = clock + 1
       /\ open_connections' = open_connections + 1
       /\ UNCHANGED <<agent_sessions, session_events, user_context, next_event_id,
                      last, predictions>>

\* conn.commit() and conn.close() of delete_session: the row and, by the
\* cascade, the event rows referring to it are gone
delete_session_commit(c) ==
    /\ callers[c].pc = "written"
    /\ callers[c].op = "delete_session"
    /\ LET r == callers[c]
       IN /\ agent_sessions' = CommittedSessions(r)
          /\ session_events' =
                CascadeDelete(
                    SelectSeq(session_events,
                              LAMBDA e : ~(/\ e.session_id = r.session_id
                                           /\ e.user_id = r.user_id
                                           /\ e.app_name = r.app_name)),
                    r.deleted)
          /\ callers' = [callers EXCEPT ![c] = Ended(r, "done", "none")]
    /\ open_connections' = open_connections - 1
    /\ UNCHANGED <<user_context, next_event_id, clock, last, predictions>>

\* delete_user_sessions up to the second DELETE, which waits like the one
\* of delete_session on every row of the pair
delete_user_sessions_write(c, app_name, user_id) ==
    LET deleted_ids == {s \in DOMAIN agent_sessions :
                            /\ agent_sessions[s].user_id = user_id
                            /\ agent_sessions[s].app_name = app_name}
    IN /\ callers[c].pc = "idle"
       /\ ~Blocked(c, deleted_ids)
       /\ callers' = [callers EXCEPT ![c] =
              [Started("delete_user_sessions", app_name, user_id, "",
                       None, None, None, FALSE, clock + 1)
                  EXCEPT !.pc = "written",
                         !.deleted = deleted_ids,
                         !.locks = deleted_ids]]
       /\ clock' = clock + 1
       /\ open_connections' = open_connections + 1
       /\ UNCHANGED <<agent_sessions, session_events, user_context, next_event_id,
                      last, predictions>>

\* conn.commit() and conn.close() of delete_user_sessions
delete_user_sessions_commit(c) ==
    /\ callers[c].pc = "written"
    /\ callers[c].op = "delete_user_sessions"
    /\ LET r == callers[c]
       IN /\ agent_sessions' = CommittedSessions(r)
          /\ session_events' =
                CascadeDelete(
                    SelectSeq(session_events,
                              LAMBDA e : ~(/\ e.user_id = r.user_id
                                           /\ e.app_name = r.app_name)),
                    r.deleted)
          /\ callers' = [callers EXCEPT ![c] = Ended(r, "done", "none")]
    /\ open_connections' = open_connections - 1
    /\ UNCHANGED <<user_context, next_event_id, clock, last, predictions>>

ConcSelect ==
    \E c \in Callers, x \in SessionArgs, b \in BOOLEAN :
        \E ev \in CallerEventInputs(c) :
            update_session_select(c, ProbeTriple[1], ProbeTriple[2], ProbeTriple[3],
                                  x[1], ev, x[2], b)

ConcWrite == \E c \in Callers : update_session_write(c)

ConcCommit == \E c \in Callers : update_session_commit(c)

ConcRaise == \E c \in Callers : update_session_raise(c)

ConcCreateWrite ==
    \E c \in Callers, x \in SessionArgs :
        create_session_write(c, ProbeTriple[1], ProbeTriple[2], ProbeTriple[3],
                             x[1], x[2])

ConcCreateCommit == \E c \in Callers : create_session_commit(c)

ConcDeleteWrite ==
    \E c \in Callers :
        delete_session_write(c, ProbeTriple[1], ProbeTriple[2], ProbeTriple[3])

ConcDeleteCommit == \E c \in Callers : delete_session_commit(c)

ConcDeleteUserWrite ==
    \E c \in Callers : delete_user_sessions_write(c, ProbePair[1], ProbePair[2])

ConcDeleteUserCommit == \E c \in Callers : delete_user_sessions_commit(c)

ConcNext ==
    \/ ConcSelect
    \/ ConcWrite
    \/ ConcCommit
    \/ ConcRaise
    \/ ConcCreateWrite
    \/ ConcCreateCommit
    \/ ConcDeleteWrite
    \/ ConcDeleteCommit
    \/ ConcDeleteUserWrite
    \/ ConcDeleteUserCommit

ConcSpec == ConcInit /\ [][ConcNext]_vars

(* ---------------------------- player resolver ------------------------ *)

\* Strings are sequences of one-character strings.  The match-history
\* directory is the predictions table, a set of rows with the two name
\* columns player1 and player2.

\* most rows of the predictions table explored
MaxMatches == 2

\* largest max_results passed to find_players_by_name
MaxResults == 2

\* the max_results expand_player_name passes in its second lookup
ExpandLimit == 10

AbBa == <<"A", "b", " ", "B", "a">>

BbBa == <<"B", "b", " ", "B", "a">>

\* AbBa as another record spells it
abba == <<"a", "b", " ", "b", "a">>

\* a one-token full name that is also the last token of other names
Ba == <<"B", "a">>

\* a one-token full name that contains Ba without ending in a token Ba
Aba == <<"A", "b", "a">>

\* AbBa stored with a trailing space
AbBaPadded == <<"A", "b", " ", "B", "a", " ">>

\* a player slot left empty
Unnamed == <<>>

\* the rows the predictions table is filled from
MatchRows ==
    {[player1 |-> AbBa, player2 |-> BbBa],
     [player1 |-> abba, player2 |-> Ba],
     [player1 |-> Aba, player2 |-> AbBa],
     [player1 |-> AbBaPadded, player2 |-> BbBa],
     [player1 |-> Unnamed, player2 |-> Ba]}

Directories == {d \in SUBSET MatchRows : Cardinality(d) <= MaxMatches}

\* the search_name / player_input arguments: every name of MatchRows, and a
\* surname in mixed case with blanks around it, a fragment of every name, a
\* string in no name, two tokens that are a fragment of some names, the
\* empty string and a blank, and two tokens holding a character that LIKE
\* reads as a pattern
SearchNames ==
    {AbBa, BbBa, abba, Ba, Aba, AbBaPadded,
     <<" ", "b", "A", " ">>, <<"b">>, <<"a", "a">>, <<"b", " ", "b", "a">>,
     <<>>, <<" ">>, <<"a", "_">>, <<"%">>}

\* where a lookup fails: nowhere; psycopg2 is None (the import failed);
\* psycopg2.connect raises; conn.cursor() raises; a cur.execute raises
ResolverFailures == {"none", "driver", "connect", "cursor", "query"}

LowerOf == [A |-> "a", B |-> "b"]

UpperOf == [a |-> "A", b |-> "B"]

IsCased(ch) == ch \in (DOMAIN LowerOf) \cup (DOMAIN UpperOf)

LowerChar(ch) == IF ch \in DOMAIN LowerOf THEN LowerOf[ch] ELSE ch

UpperChar(ch) == IF ch \in DOMAIN UpperOf THEN UpperOf[ch] ELSE ch

\* LOWER(str) of SQL and str.lower()
Lower(str) == [i \in 1..Len(str) |-> LowerChar(str[i])]

\* str.title(): a cased character is upper-cased when it starts a run of
\* cased characters and lower-cased inside one
Title(str) ==
    [i \in 1..Len(str) |->
        IF i > 1 /\ IsCased(str[i - 1]) THEN LowerChar(str[i]) ELSE UpperChar(str[i])]

Whitespace == {" "}

\* str.strip()
Strip(str) ==
    LET solid == {i \in 1..Len(str) : str[i] \notin Whitespace}
    IN IF solid = {} THEN <<>>
       ELSE SubSeq(str, CHOOSE i \in solid : \A j \in solid : i <= j,
                        CHOOSE i \in solid : \A j \in solid : i >= j)

\* NumTokens as len(str.split(' ')): one more than the number of spaces
NumTokensSplitOnSpace(str) ==
    Cardinality({i \in 1..Len(str) : str[i] = " "}) + 1

\* len(str.split()): the number of runs of non-blank characters
NumTokens(str) ==
    Cardinality({i \in 1..Len(str) :
                    /\ str[i] \notin Whitespace
                    /\ (i = 1 \/ str[i - 1] \in Whitespace)})

\* SPLIT_PART(str, ' ', -1): what follows the last space, the whole string
\* when it has no space
LastField(str) ==
    LET spaces == {i \in 1..Len(str) : str[i] = " "}
    IN IF spaces = {} THEN str
       ELSE SubSeq(str, (CHOOSE i \in spaces : \A j \in spaces : i >= j) + 1, Len(str))

\* str LIKE pattern: % stands for any run of characters, _ for any one
RECURSIVE Like(_, _)
Like(str, pattern) ==
    IF pattern = <<>> THEN str = <<>>
    ELSE IF Head(pattern) = "%"
    THEN Like(str, Tail(pattern)) \/ (str # <<>> /\ Like(Tail(str), pattern))
    ELSE /\ str # <<>>
         /\ (Head(pattern) = "_" \/ Head(pattern) = Head(str))
         /\ Like(Tail(str), Tail(pattern))

\* the names in either column of the rows
Players(rows) == {r.player1 : r \in rows} \cup {r.player2 : r \in rows}

\* ExactMatches comparing without LOWER
ExactMatchesCaseSensitive(rows, search_name) ==
    {n \in Players(rows) : n = search_name}

\* strategy 1: SELECT DISTINCT player1 ... WHERE LOWER(player1) = LOWER(%s)
\* UNION the same of player2
ExactMatches(rows, search_name) ==
    {n \in Players(rows) : Lower(n) = Lower(search_name)}

\* SurnameMatches comparing the first field of the name
SurnameMatchesFirstField(rows, search_name) ==
    {n \in Players(rows) :
        \E i \in 1..(Len(n) + 1) :
            /\ \A j \in 1..(i - 1) : n[j] # " "
            /\ (i = Len(n) + 1 \/ n[i] = " ")
            /\ Lower(SubSeq(n, 1, i - 1)) = Lower(search_name)}

\* strategy 2: ... WHERE LOWER(SPLIT_PART(player1, ' ', -1)) = LOWER(%s) ...
SurnameMatches(rows, search_name) ==
    {n \in Players(rows) : Lower(LastField(n)) = Lower(search_name)}

\* strategy 3: ... WHERE LOWER(player1) LIKE LOWER(%s) ... with f"%{search_name}%"
PartialMatches(rows, search_name) ==
    {n \in Players(rows) : Like(Lower(n), Lower(<<"%">> \o search_name \o <<"%">>))}

\* every order cur.fetchall() can return the rows of a query without ORDER BY in
RECURSIVE Orderings(_)
Orderings(S) ==
    IF S = {} THEN {<<>>}
    ELSE UNION {{<<e>> \o t : t \in Orderings(S \ {e})} : e \in S}

\* [{"full_name": match[0], "match_type": tag} for match in rows]
Tagged(rows, tag) ==
    [i \in 1..Len(rows) |-> [full_name |-> rows[i], match_type |-> tag]]

\* Matches with the strategies accumulated in the opposite order
MatchesPartialFirst(exact, surname, partial) ==
    Tagged(partial, "partial") \o Tagged(surname, "surname") \o Tagged(exact, "exact")

\* the matches list after the three matches.extend calls
Matches(exact, surname, partial) ==
    Tagged(exact, "exact") \o Tagged(surname, "surname") \o Tagged(partial, "partial")

\* UniqueMatches without the seen_names test
RECURSIVE UniqueMatchesKeepAll(_, _, _)
UniqueMatchesKeepAll(matches, unique_matches, max_results) ==
    IF matches = <<>> THEN unique_matches
    ELSE LET appended == Append(unique_matches, Head(matches))
         IN IF Len(appended) >= max_results THEN appended
            ELSE UniqueMatchesKeepAll(Tail(matches), appended, max_results)

\* the dedup loop: a match whose full_name was not seen is appended, and the
\* loop breaks once unique_matches holds max_results entries
RECURSIVE UniqueMatches(_, _, _)
UniqueMatches(matches, unique_matches, max_results) ==
    IF matches = <<>> THEN unique_matches
    ELSE IF \E j \in 1..Len(unique_matches) :
                unique_matches[j].full_name = Head(matches).full_name
    THEN UniqueMatches(Tail(matches), unique_matches, max_results)
    ELSE LET appended == Append(unique_matches, Head(matches))
         IN IF Len(appended) >= max_results THEN appended
            ELSE UniqueMatches(Tail(matches), appended, max_results)

\* the lists find_players_by_name can return when every query is served:
\* one for each order the three result sets can come back in.  Strategies 2
\* and 3 run when the cleaned search_name splits into exactly one token.
FindResults(rows, search_name, max_results) ==
    LET cleaned == Title(Strip(search_name))
        single == NumTokens(cleaned) = 1
        surnames == IF single THEN Orderings(SurnameMatches(rows, cleaned)) ELSE {<<>>}
        partials == IF single THEN Orderings(PartialMatches(rows, cleaned)) ELSE {<<>>}
    IN {UniqueMatches(Matches(e, n, p), <<>>, max_results) :
            e \in Orderings(ExactMatches(rows, cleaned)), n \in surnames, p \in partials}

\* find_players_by_name leaves through its finally clause.  `conn` is bound
\* by the first statement of the try: when psycopg2 is None or connect
\* raises, the handler's `return []` is replaced by the UnboundLocalError of
\* `if conn:`; when conn.cursor() raises, by that of `cur.close()`, and
\* conn.close() is not reached.
FindRaises(fail) == fail \in {"driver", "connect", "cursor"}

\* the connections a call of find_players_by_name leaves open
FindLeaks(fail) == IF fail = "cursor" THEN 1 ELSE 0

\* the lists a lookup can return: [] from the handler of a failing query
FindReturns(rows, search_name, max_results, fail) ==
    IF fail = "none" THEN FindResults(rows, search_name, max_results) ELSE {<<>>}

find_players_by_name(search_name, max_results, fail) ==
    /\ \E found \in FindReturns(predictions, search_name, max_results, fail) :
            last' = [op |-> "find_players_by_name",
                     search_name |-> search_name, max_results |-> max_results,
                     fail |-> fail, raised |-> FindRaises(fail),
                     ret |-> found]
    /\ open_connections' = open_connections + FindLeaks(fail)
    /\ UNCHANGED <<tables, callers, predictions>>

\* ExpandResult returning the first match only
ExpandResultFirst(exact_matches, all_matches) ==
    IF exact_matches # <<>> /\ exact_matches[1].match_type = "exact"
    THEN <<exact_matches[1].full_name>>
    ELSE IF all_matches = <<>> THEN <<>>
    ELSE <<all_matches[1].full_name>>

\* what expand_player_name returns from its two lookups
ExpandResult(exact_matches, all_matches) ==
    IF exact_matches # <<>> /\ exact_matches[1].match_type = "exact"
    THEN <<exact_matches[1].full_name>>
    ELSE IF all_matches = <<>> THEN <<>>
    ELSE IF Len(all_matches) = 1 THEN <<all_matches[1].full_name>>
    ELSE [i \in 1..Len(all_matches) |-> all_matches[i].full_name]

\* expand_player_name: strip, then find_players_by_name with max_results=1
\* and, without an exact match, again with max_results=10.  Its handler
\* catches ImportError only, which nothing in the try raises (the import of
\* psycopg2 is guarded where the module is loaded), so an exception of the
\* first lookup leaves expand_player_name; a failing query makes both
\* lookups return [].
expand_player_name(player_input, fail) ==
    /\ LET stripped == Strip(player_input)
       IN \E exact_matches \in FindReturns(predictions, stripped, 1, fail),
             all_matches \in FindReturns(predictions, stripped, ExpandLimit, fail) :
            last' = [op |-> "expand_player_name",
                     player_input |-> player_input,
                     fail |-> fail, raised |-> FindRaises(fail),
                     ret |-> ExpandResult(exact_matches, all_matches)]
    /\ open_connections' = open_connections + FindLeaks(fail)
    /\ UNCHANGED <<tables, callers, predictions>>

ResolverInit ==
    /\ agent_sessions = [s \in {} |-> 0]
    /\ session_events = <<>>
    /\ user_context = [u \in {} |-> 0]
    /\ next_event_id = 1
    /\ clock = 0
    /\ last = [op |-> "init", raised |-> FALSE]
    /\ callers = [c \in Callers |-> Idle]
    /\ predictions \in Directories
    /\ open_connections = 0

\* A lookup reads the directory and keeps nothing for the next one, so every
\* lookup is explored as the first one made.
FindPlayersByName ==
    /\ last.op = "init"
    /\ \E search_name \in SearchNames, max_results \in 1..MaxResults,
          fail \in ResolverFailures :
           find_players_by_name(search_name, max_results, fail)

ExpandPlayerName ==
    /\ last.op = "init"
    /\ \E player_input \in SearchNames, fail \in ResolverFailures :
           expand_player_name(player_input, fail)

ResolverNext ==
    \/ FindPlayersByName
    \/ ExpandPlayerName

ResolverSpec == ResolverInit /\ [][ResolverNext]_vars

(* ---------------------------- properties ------------------------------- *)

\* the step just taken was a call of op
Called(op) == last'.op = op

\* the agent_sessions row the last call's key names
LastRow == agent_sessions[last.session_id]

\* new is old shallow-merged with the optional argument arg
IsShallowMerge(new, old, arg) ==
    IF arg = None THEN new = old
    ELSE /\ DOMAIN new = (DOMAIN old) \cup (DOMAIN Val(arg))
         /\ \A k \in DOMAIN new :
                IF k \in DOMAIN Val(arg) THEN new[k] = Val(arg)[k]
                ELSE new[k] = old[k]

\* C1: create_session on a key whose session already exists is a touch: the
\* row keeps its state, metadata, events list, conversation_count and
\* total_events whatever initial_state and metadata the call carries, so the
\* state get_session reads stays the one the creating call stored.
C1_CreateIsTouch ==
    [][(Called("create_session") /\ last'.existed) =>
        LET s == last'.session_id
        IN /\ HasSession(agent_sessions', last'.app_name, last'.user_id, s)
           /\ agent_sessions'[s].state = agent_sessions[s].state
           /\ agent_sessions'[s].metadata = agent_sessions[s].metadata
           /\ agent_sessions'[s].events = agent_sessions[s].events
           /\ agent_sessions'[s].conversation_count = agent_sessions[s].conversation_count
           /\ agent_sessions'[s].total_events = agent_sessions[s].total_events]_vars

\* a second create_session carrying another initial_state and metadata has
\* returned, and the session still holds what it held
C1_Witness ==
    /\ last.op = "create_session"
    /\ last.existed
    /\ ~last.raised
    /\ last.state # None
    /\ last.metadata # None
    /\ LastRow.state # Val(last.state)
    /\ LastRow.metadata # Val(last.metadata)
    /\ LastRow.state # EmptyMap

\* C2: update_session on an existing session shallow-merges the supplied
\* state into the stored state and the supplied metadata into the stored
\* metadata (supplied keys win, other stored keys stay), and leaves a map
\* whose argument is omitted as it was; two updates A then B therefore give
\* the merge of the prior state, A and B.
C2_MergeLaw ==
    [][(Called("update_session") /\ last'.existed /\ ~last'.raised) =>
        LET s == last'.session_id
        IN /\ HasSession(agent_sessions', last'.app_name, last'.user_id, s)
           /\ IsShallowMerge(agent_sessions'[s].state,
                             agent_sessions[s].state, last'.state)
           /\ IsShallowMerge(agent_sessions'[s].metadata,
                             agent_sessions[s].metadata, last'.metadata)]_vars

\* {a:2, b:2} then {a:1} has given {a:1, b:2}, and the metadata likewise
C2_Witness ==
    /\ last.op = "update_session"
    /\ last.existed
    /\ ~last.raised
    /\ last.state = Some([a |-> 1])
    /\ LastRow.state = [a |-> 1, b |-> 2]
    /\ LastRow.metadata = [m |-> 1, n |-> 2]

\* the counts of the last call's key after the step: total_events, the
\* length of the row's events list, the number of session_events rows
CountsAfter(total, length, rows) ==
    LET s == last'.session_id
    IN /\ HasSession(agent_sessions', last'.app_name, last'.user_id, s)
       /\ agent_sessions'[s].total_events = total
       /\ Len(agent_sessions'[s].events) = length
       /\ Len(EventsIn(session_events', last'.app_name, last'.user_id, s)) = rows

C4_UpdateCreatesOnAbsence ==
    [][(Called("update_session") /\ last'.fail = "none"
        /\ ~SessionExists(last'.app_name, last'.user_id, last'.session_id)) =>
        LET s == last'.session_id
        IN /\ ~last'.raised
           /\ HasSession(agent_sessions', last'.app_name, last'.user_id, s)
           /\ agent_sessions'[s].state = OrEmptyMap(last'.state)
           /\ agent_sessions'[s].metadata = OrEmptyMap(last'.metadata)
           /\ agent_sessions'[s].conversation_count = 0]_vars

\* C5: a create_session that returns normally for a triple that had no
\* session leaves a session for exactly that triple, holding the supplied
\* initial_state and metadata, whatever other sessions share its session_id.
C5_TripleIdentifiesSession ==
    [][(Called("create_session") /\ ~last'.raised
        /\ ~SessionExists(last'.app_name, last'.user_id, last'.session_id)) =>
        LET s == last'.session_id
        IN /\ HasSession(agent_sessions', last'.app_name, last'.user_id, s)
           /\ agent_sessions'[s].state = OrEmptyMap(last'.state)
           /\ agent_sessions'[s].metadata = OrEmptyMap(last'.metadata)]_vars

\* C6: when the user has a context under another app_name and none under
\* this one, create_session and update_user_context complete without error
\* and leave a context for (user_id, app_name); and create_session leaves
\* an existing context of its own pair as it is.
C6_ContextKeyedByPair ==
    [][/\ ((Called("create_session") \/ Called("update_user_context"))
           /\ last'.fail = "none"
           /\ last'.user_id \in DOMAIN user_context
           /\ ~ContextExists(last'.app_name, last'.user_id)) =>
              /\ ~last'.raised
              /\ HasContext(user_context', last'.app_name, last'.user_id)
       /\ (Called("create_session")
           /\ ContextExists(last'.app_name, last'.user_id)) =>
              user_context' = user_context]_vars

\* C7: a delete_session call the store serves returns true for a key whose
\* session exists and leaves neither the session row nor any session_events
\* row of that session; for a key with no session (a deleted one included)
\* it returns false and changes no table.
C7_DeleteSession ==
    [][(Called("delete_session") /\ last'.fail = "none") =>
        LET a == last'.app_name
            u == last'.user_id
            s == last'.session_id
        IN IF SessionExists(a, u, s)
           THEN /\ last'.ret = TRUE
                /\ s \notin DOMAIN agent_sessions'
                /\ \A i \in 1..Len(session_events') : session_events'[i].session_id # s
                /\ \A t \in (DOMAIN agent_sessions) \ {s} :
                       /\ t \in DOMAIN agent_sessions'
                       /\ agent_sessions'[t] = agent_sessions[t]
           ELSE /\ last'.ret = FALSE
                /\ UNCHANGED tables]_vars

\* a session that had event rows has just been deleted, rows included
C7_Witness ==
    /\ last.op = "delete_session"
    /\ last.ret = TRUE
    /\ next_event_id > 1
    /\ session_events = <<>>
    /\ last.session_id \notin DOMAIN agent_sessions

\* C8: delete_session and delete_user_sessions leave every user_context row
\* in place with the same user_preferences and interaction_stats.
C8_DeletesKeepContext ==
    [][(Called("delete_session") \/ Called("delete_user_sessions")) =>
        user_context' = user_context]_vars

\* delete_user_sessions has removed the sessions of a pair whose context,
\* with preferences set, is still there
C8_Witness ==
    /\ last.op = "delete_user_sessions"
    /\ last.ret >= 1
    /\ ContextExists(last.app_name, last.user_id)
    /\ user_context[last.user_id].user_preferences # EmptyMap

WriteOps ==
    {"create_session", "update_session", "delete_session",
     "delete_user_sessions", "update_user_context"}

ReadOps == {"get_session", "list_sessions", "get_user_context", "get_session_events"}

\* C9: a write operation that meets a storage failure raises to its caller.
C9_WriteFailuresSurface ==
    (last.op \in WriteOps /\ last.fail # "none") => last.raised

\* C10: a read operation that meets a storage failure, in connecting or in
\* a query, does not raise and returns absent / the empty list.
C10_ReadsDegradeSoftly ==
    (last.op \in ReadOps /\ last.fail # "none") =>
        /\ ~last.raised
        /\ IF last.op \in {"get_session", "get_user_context"}
           THEN last.ret = None
           ELSE last.ret = <<>>

\* record.get(field, default), as test_session_state_updates reads the
\* record get_session returned
Reported(record, field, default) ==
    IF field \in DOMAIN record THEN record[field] ELSE default

\* C12: after update_session(events=E, add_conversation=True) on an existing
\* session, the record get_session returns for the key reports a
\* conversation_count one greater than the record it returned before the
\* update, and an events list longer by the length of E.
C12_TurnVisibleThroughGetSession ==
    [][(Called("update_session") /\ last'.existed /\ ~last'.raised
        /\ last'.add_conversation) =>
        LET a == last'.app_name
            u == last'.user_id
            s == last'.session_id
            before == Val(SessionRecord(agent_sessions, a, u, s))
            after == Val(SessionRecord(agent_sessions', a, u, s))
        IN /\ Reported(after, "conversation_count", 0) =
                  Reported(before, "conversation_count", 0) + 1
           /\ Len(Reported(after, "events", <<>>)) =
                  Len(Reported(before, "events", <<>>))
                      + Len(OrEmptyList(last'.events))]_vars

(* ---------------------------- properties: concurrency ---------------- *)

\* the events caller c supplied with its call
SuppliedEvents(c) == OrEmptyList(callers[c].events)

\* how many entries of the list q equal e
Occurrences(q, e) == Cardinality({i \in 1..Len(q) : q[i] = e})

\* C11: when two callers run update_session concurrently on the same existing
\* session, each with a non-empty events list, then however their store
\* round-trips interleave, once both have committed the row's events list
\* holds every event of both callers and total_events has grown by the sum
\* of the two list lengths.
C11_AllWritersEventsPreserved ==
    (\A c \in Callers : callers[c].pc = "done" /\ SuppliedEvents(c) # <<>>) =>
        LET row == agent_sessions[ProbeTriple[3]]
        IN /\ \A c \in Callers : \A e \in SeqRange(SuppliedEvents(c)) :
                  Occurrences(row.events, e) >= Occurrences(SuppliedEvents(c), e)
           /\ row.total_events =
                  SeedRow.total_events + Len(SuppliedEvents("c1"))
                                       + Len(SuppliedEvents("c2"))

(* ---------------------------- properties: connections ---------------- *)

\* C13: every public operation of the session store and of the player
\* resolver closes the connection it acquired on every exit path, a failure
\* in cursor creation or in a query included, so that between calls no
\* connection is open.
C13_ConnectionsReleased == open_connections = 0

(* ---------------------------- properties: player resolver ------------ *)

\* the last call was a find_players_by_name that every query served
FoundServed == last.op = "find_players_by_name" /\ last.fail = "none"

\* the last call was an expand_player_name that every query served
ExpandedServed == last.op = "expand_player_name" /\ last.fail = "none"

\* the names of the directory equal to str but for case
SameButCase(str) == {n \in Players(predictions) : Lower(n) = Lower(str)}

\* the names of the directory whose text after the last space equals str
\* but for case
WithSurname(str) == {n \in Players(predictions) : Lower(LastField(n)) = Lower(str)}

\* the positions of the returned list tagged kind
TaggedAt(ret, kind) == {i \in 1..Len(ret) : ret[i].match_type = kind}

Smaller(a, b) == IF a <= b THEN a ELSE b

\* C14 as claimed: for every full name N in a player slot of the directory
\* and every k >= 1, find_players_by_name(N, k) returns a non-empty list
\* whose first element is N tagged exact.
C14_ExactMatchFirst ==
    (FoundServed /\ last.search_name \in Players(predictions)) =>
        /\ last.ret # <<>>
        /\ last.ret[1] = [full_name |-> last.search_name, match_type |-> "exact"]

\* C14 amended: for every full name N in a player slot that has no blank at
\* either end, and every k >= 1, find_players_by_name(N, k) returns a
\* non-empty list whose first element is tagged exact and is a directory name
\* equal to N but for case; it is N itself when no other directory name
\* differs from N only in case.
C14_ExactMatchFirstUpToCase ==
    (FoundServed /\ last.search_name \in Players(predictions)
     /\ Strip(last.search_name) = last.search_name) =>
        /\ last.ret # <<>>
        /\ last.ret[1].match_type = "exact"
        /\ last.ret[1].full_name \in SameButCase(last.search_name)
        /\ SameButCase(last.search_name) = {last.search_name} =>
               last.ret[1].full_name = last.search_name

\* a directory name was looked up and another spelling of it came first
C14_Witness ==
    /\ FoundServed
    /\ last.search_name \in Players(predictions)
    /\ Strip(last.search_name) = last.search_name
    /\ last.ret # <<>>
    /\ last.ret[1].match_type = "exact"
    /\ last.ret[1].full_name # last.search_name

\* the last whitespace-delimited token of str
LastToken(str) == LastField(Strip(str))

C16_AtMostMaxResultsNoDuplicates ==
    (last.op = "find_players_by_name" /\ ~last.raised) =>
        /\ Len(last.ret) <= last.max_results
        /\ \A i, j \in 1..Len(last.ret) :
               last.ret[i].full_name = last.ret[j].full_name => i = j

\* a lookup whose strategies found one name twice and more names than
\* max_results has returned max_results entries
C16_Witness ==
    /\ FoundServed
    /\ last.max_results >= 2
    /\ Len(last.ret) = last.max_results
    /\ LET cleaned == Title(Strip(last.search_name))
       IN /\ NumTokens(cleaned) = 1
          /\ ExactMatches(predictions, cleaned) \cap
                 SurnameMatches(predictions, cleaned) # {}
          /\ Cardinality(PartialMatches(predictions, cleaned)) > last.max_results

\* the highest-priority strategy under which name matches the cleaned
\* search_name, "none" when no strategy that is attempted does
BestStrategy(name, cleaned) ==
    IF name \in ExactMatches(predictions, cleaned) THEN "exact"
    ELSE IF NumTokens(cleaned) # 1 THEN "none"
    ELSE IF name \in SurnameMatches(predictions, cleaned) THEN "surname"
    ELSE IF name \in PartialMatches(predictions, cleaned) THEN "partial"
    ELSE "none"

Priority == [exact |-> 1, surname |-> 2, partial |-> 3]

\* C17: in the list find_players_by_name returns every full_name carries
\* the tag of the highest-priority strategy that matches it (exact over
\* surname over partial); exact-tagged entries precede surname-tagged ones,
\* which precede partial-tagged ones, so that when any exact match exists
\* the first element is tagged exact; for a search_name of two or more
\* tokens only exact-tagged entries appear.
C17_PriorityClassificationAndOrder ==
    FoundServed =>
        LET cleaned == Title(Strip(last.search_name))
            ret == last.ret
        IN /\ \A i \in 1..Len(ret) :
                  ret[i].match_type = BestStrategy(ret[i].full_name, cleaned)
           /\ \A i, j \in 1..Len(ret) :
                  i < j => Priority[ret[i].match_type] <= Priority[ret[j].match_type]
           /\ ExactMatches(predictions, cleaned) # {} =>
                  (ret # <<>> /\ ret[1].match_type = "exact")
           /\ NumTokens(last.search_name) >= 2 =>
                  \A i \in 1..Len(ret) : ret[i].match_type = "exact"

\* a name that all three strategies match came first tagged exact, followed
\* by a surname match
C17_Witness ==
    /\ FoundServed
    /\ Len(last.ret) >= 2
    /\ last.ret[1].match_type = "exact"
    /\ last.ret[2].match_type = "surname"
    /\ LET cleaned == Title(Strip(last.search_name))
       IN last.ret[1].full_name \in
              SurnameMatches(predictions, cleaned) \cap PartialMatches(predictions, cleaned)

\* the directory names that match the input under a strategy attempted for it
MatchSet(player_input) ==
    LET cleaned == Title(Strip(player_input))
    IN {n \in Players(predictions) : BestStrategy(n, cleaned) # "none"}

\* C18 as claimed: with the directory reachable, expand_player_name(x)
\* returns exactly one element when exactly one directory name matches x
\* under any strategy, more than one element if and only if more than one
\* distinct full name matches, and no element if and only if none matches.
C18_ExpandCardinality ==
    ExpandedServed =>
        LET M == MatchSet(last.player_input)
        IN /\ Cardinality(M) = 1 => Len(last.ret) = 1
           /\ Len(last.ret) > 1 <=> Cardinality(M) > 1
           /\ Len(last.ret) = 0 <=> M = {}

\* C18 amended: with the directory reachable, expand_player_name(x) returns
\* exactly one element, a directory name equal to the trimmed x but for case,
\* whenever there is such a name, whatever else matches; otherwise it
\* returns each distinct name that matches x under the surname or the partial
\* strategy once (at most 10 of them): no element if and only if none
\* matches, one if and only if one does, more than one if and only if more do.
C18_ExpandCardinalityExactFirst ==
    ExpandedServed =>
        LET M == MatchSet(last.player_input)
            E == SameButCase(Strip(last.player_input))
            ret == last.ret
        IN IF E # {}
           THEN Len(ret) = 1 /\ ret[1] \in E
           ELSE /\ Len(ret) = Smaller(Cardinality(M), ExpandLimit)
                /\ \A i \in 1..Len(ret) : ret[i] \in M
                /\ \A i, j \in 1..Len(ret) : ret[i] = ret[j] => i = j

\* an input that one name matches exactly and other names match otherwise
\* gave that one name
C18_Witness ==
    /\ ExpandedServed
    /\ SameButCase(Strip(last.player_input)) # {}
    /\ Cardinality(MatchSet(last.player_input)) > 1
    /\ Len(last.ret) = 1

\* C19: find_players_by_name returns an empty list and does not raise, for
\* every input, when the driver is missing, when the connection cannot be
\* established, and when a query fails after the connection was opened.
C19_ResolutionFailureIsSoft ==
    (last.op = "find_players_by_name" /\ last.fail \in {"driver", "connect", "query"}) =>
        /\ ~last.raised
        /\ last.ret = <<>>

\* C20: when the driver is missing or the store unreachable,
\* expand_player_name does not raise, and returns the list of the
\* title-cased input for an input of two or more tokens and the empty list
\* for a single-token input.
C20_UnavailableDirectoryAsymmetry ==
    (last.op = "expand_player_name" /\ last.fail \in {"driver", "connect"}) =>
        /\ ~last.raised
        /\ NumTokens(last.player_input) >= 2 =>
               last.ret = <<Title(Strip(last.player_input))>>
        /\ NumTokens(last.player_input) = 1 => last.ret = <<>>

\* C21: for an empty or whitespace-only search_name find_players_by_name
\* skips the surname and the partial strategy: its result holds no surname-
\* or partial-tagged entry, and is empty unless the directory itself holds
\* an empty name.
C21_BlankSearchMatchesNothing ==
    (FoundServed /\ Strip(last.search_name) = <<>>) =>
        /\ TaggedAt(last.ret, "surname") = {}
        /\ TaggedAt(last.ret, "partial") = {}
        /\ last.ret # <<>> => <<>> \in Players(predictions)
        /\ \A i \in 1..Len(last.ret) : last.ret[i].full_name = <<>>

\* a blank search_name was looked up in a directory that holds names, one
\* of them ending in a space, and nothing came back
C21_Witness ==
    /\ FoundServed
    /\ last.search_name = <<" ">>
    /\ AbBaPadded \in Players(predictions)
    /\ Cardinality(Players(predictions)) >= 3
    /\ last.ret = <<>>

(* ---------------------------- properties: ordering -------------------- *)

\* the ids of the sessions rows holds for the pair
SessionIdsOf(rows, app_name, user_id) ==
    {x \in DOMAIN rows : rows[x].user_id = user_id /\ rows[x].app_name = app_name}

\* C22: list_sessions returns exactly the ids of the sessions that exist for
\* the pair, each once, most recently active first, where the activity time
\* of a session is the time of the latest create_session (a re-create touch
\* included) or update_session applied to it: a served list is sorted by
\* last_activity descending, and a session's last_activity changes only in
\* a create_session or update_session call made with that session's own
\* key, which makes it the latest; reads change no activity time.
C22_ListMostRecentlyActiveFirst ==
    [][/\ (Called("list_sessions") /\ last'.fail = "none") =>
            LET ret == last'.ret
            IN /\ SeqRange(ret) =
                      SessionIdsOf(agent_sessions, last'.app_name, last'.user_id)
               /\ \A i, j \in 1..Len(ret) :
                      /\ ret[i] = ret[j] => i = j
                      /\ i < j => agent_sessions[ret[i]].last_activity
                                      >= agent_sessions[ret[j]].last_activity
       /\ \A x \in (DOMAIN agent_sessions) \cap (DOMAIN agent_sessions') :
            agent_sessions'[x].last_activity # agent_sessions[x].last_activity =>
                /\ Called("create_session") \/ Called("update_session")
                /\ last'.session_id = x
                /\ last'.user_id = agent_sessions[x].user_id
                /\ last'.app_name = agent_sessions[x].app_name
                /\ \A y \in (DOMAIN agent_sessions') \ {x} :
                       agent_sessions'[x].last_activity > agent_sessions'[y].last_activity]_vars

\* C23: every public operation of the session store acquires exactly one
\* store connection during a call that can connect, and never holds two at
\* the same time, on every path, update_session's create-if-absent path
\* included.
C23_OneConnectionPerCall ==
    (last.op \in WriteOps \cup ReadOps /\ last.fail # "connect") =>
        /\ ConnectionsAcquired(last) = 1
        /\ ConnectionsHeld(last) <= 1

\* sub occurs in str as a run of consecutive characters
Contains(str, sub) ==
    \E i \in 0..(Len(str) - Len(sub)) : SubSeq(str, i + 1, i + Len(sub)) = sub

\* C24: for every single-token search_name, over any characters, '%' and
\* '_' included, every entry find_players_by_name tags partial has a
\* full_name that contains the trimmed search_name as a substring but for
\* case, and every directory name that contains it is in the result unless
\* max_results cut the list.
C24_PartialIsSubstringContainment ==
    (FoundServed /\ NumTokens(last.search_name) = 1) =>
        LET wanted == Lower(Strip(last.search_name))
            ret == last.ret
        IN /\ \A i \in TaggedAt(ret, "partial") :
                  Contains(Lower(ret[i].full_name), wanted)
           /\ Len(ret) < last.max_results =>
                  \A n \in Players(predictions) :
                      Contains(Lower(n), wanted) =>
                          \E i \in 1..Len(ret) : ret[i].full_name = n

\* the SessionEvent rows of the key, the one appended last first, as
\* get_session_events reports a row
NewestFirst(app_name, user_id, session_id) ==
    LET rows == EventsOf(app_name, user_id, session_id)
        n == Len(rows)
    IN [i \in 1..n |-> [type |-> rows[n + 1 - i].event_type,
                        data |-> rows[n + 1 - i].event_data,
                        timestamp |-> rows[n + 1 - i].timestamp]]

\* C25: get_session_events orders the SessionEvent rows of a session newest
\* first, an event appended later (by a later update_session call, or later
\* in the events list of one call) before the others, and a call with
\* offset o and limit l returns positions o .. o+l-1 of that one ordering,
\* so that successive pages neither repeat nor skip an event.
C25_EventPagesNewestFirst ==
    (last.op = "get_session_events" /\ last.fail = "none") =>
        last.ret = Page(NewestFirst(last.app_name, last.user_id, last.session_id),
                        last.limit, last.offset)

(* ---------------------------- properties: frame ----------------------- *)

\* C26: create_session and update_session called with a key K leave every
\* stored attribute of every session whose triple differs from K in any
\* component as it was, a session with K's session_id under another user
\* or app included.
C26_OtherSessionsUntouched ==
    [][(Called("create_session") \/ Called("update_session")) =>
        \A x \in DOMAIN agent_sessions :
            <<agent_sessions[x].app_name, agent_sessions[x].user_id, x>>
                # <<last'.app_name, last'.user_id, last'.session_id>> =>
                    /\ x \in DOMAIN agent_sessions'
                    /\ agent_sessions'[x] = agent_sessions[x]]_vars

(* ---------------------------- properties: concurrent calls ------------ *)

\* C27: however the update_session calls of concurrent callers on one
\* existing session interleave, once all have committed the session's
\* conversation_count has grown by the number of those calls made with
\* add_conversation = true.
C27_ConversationCountExact ==
    (\A c \in Callers : callers[c].pc = "done" /\ callers[c].op = "update_session") =>
        agent_sessions[ProbeTriple[3]].conversation_count =
            SeedRow.conversation_count
                + Cardinality({c \in Callers : callers[c].add_conversation})

(* ---------------------------- properties: atomicity ------------------ *)

\* caller c has taken a step of an update_session call that is not the
\* commit the call returns after
StepOfUnreturnedUpdate(c) ==
    /\ callers'[c] # callers[c]
    /\ callers'[c].pc \in {"selected", "written", "raised"}
    /\ callers'[c].op = "update_session"

\* C28: update_session is all-or-nothing on the store: no step of a call on
\* an existing session other than its final commit changes a session row or
\* an event row, so a call that raises (a store failure after the row was
\* rewritten and event rows were inserted included) leaves the row's state,
\* events, metadata and counters and the session_events rows as they were.
C28_RaisingUpdateChangesNothing ==
    [][\A c \in Callers :
           StepOfUnreturnedUpdate(c) =>
               /\ agent_sessions' = agent_sessions
               /\ session_events' = session_events]_vars

\* an update_session call with events has raised on a store failure after
\* its UPDATE rewrote the row
C28_Witness ==
    \E c \in Callers :
        /\ callers[c].pc = "raised"
        /\ callers[c].op = "update_session"
        /\ callers[c].error = "store"
        /\ callers[c].rewrote
        /\ SuppliedEvents(c) # <<>>

(* ---------------------------- properties: concurrent creation -------- *)

\* both callers have made a create_session call and both calls have ended
BothCreated ==
    \A c \in Callers :
        callers[c].pc \in {"done", "raised"} /\ callers[c].op = "create_session"

\* the session of ProbeTriple existed before the two callers started: only
\* the row the store started with was created at time 0
ExistedBeforehand ==
    /\ ProbeTriple[3] \in DOMAIN agent_sessions
    /\ agent_sessions[ProbeTriple[3]].created_at = 0

\* C29: when the two callers run create_session concurrently on the same
\* key, which no session had beforehand, with different initial_state
\* values, then however the calls interleave both return without error, one
\* session row of the key and one user_context row of its user and
\* application exist afterwards, and the row's state is the initial_state of
\* the caller that committed first (the one whose INSERT created the row).
C29_ConcurrentCreationSafe ==
    (/\ BothCreated
     /\ callers["c1"].state # callers["c2"].state
     /\ ~ExistedBeforehand) =>
        /\ \A c \in Callers : callers[c].pc = "done"
        /\ SessionExists(ProbeTriple[1], ProbeTriple[2], ProbeTriple[3])
        /\ ContextExists(ProbeTriple[1], ProbeTriple[2])
        /\ \E c \in Callers :
              /\ callers[c].ts = agent_sessions[ProbeTriple[3]].created_at
              /\ agent_sessions[ProbeTriple[3]].state = OrEmptyMap(callers[c].state)

(* ---------------------------- properties: concurrent deletion -------- *)

\* caller c made an update_session call that has ended, and not on a
\* failure of the store itself
UpdateEnded(c) ==
    /\ callers[c].pc \in {"done", "raised"}
    /\ callers[c].op = "update_session"
    /\ callers[c].error # "store"

\* caller d made a delete_session or delete_user_sessions call that has ended
DeleteEnded(d) ==
    /\ callers[d].pc = "done"
    /\ callers[d].op \in {"delete_session", "delete_user_sessions"}

\* C30: when an update_session on a key, with or without events, is
\* interleaved in any way with a delete_session or delete_user_sessions
\* covering the key, the update_session returns without raising, and no
\* session_events row is left whose session does not exist.
C30_UpdateToleratesConcurrentDelete ==
    \A c \in Callers, d \in Callers :
        (UpdateEnded(c) /\ DeleteEnded(d)) =>
            /\ callers[c].pc = "done"
            /\ \A i \in 1..Len(session_events) :
                  session_events[i].session_id \in DOMAIN agent_sessions

====
